---- MODULE Spec2Model ----
(***************************************************************************)
(* Model of gcluster.py: a Streamlit script that loads a Google sheet into *)
(* a process-wide cached DataFrame, preprocesses it in place, offers eight *)
(* cascading dropdowns plus Absent Reason, a fuzzy search, a date range,   *)
(* then paginates, exports and renders the result.                         *)
(*                                                                         *)
(* Text is modelled as sequences of one-character strings so that sorting, *)
(* lower-casing, date parsing and the partial-ratio score are computed.    *)
(* A null cell (NaN / NaT) is the empty sequence.                          *)
(***************************************************************************)
EXTENDS Integers, Sequences, FiniteSets, TLC

\* ------------------------------------------------------------------ bounds
\* rows of the remote sheet in the lifecycle and pipeline specifications
MaxRows == 5
\* rows of the remote sheet behind the tables handed to the paginator alone
MaxPageRows == 26
\* rows of the one larger worksheet of the lifecycle specification
TwoPageRows == 12
\* form widgets (nine dropdowns, search, two dates) a user moves off their
\* defaults before one run
MaxChanged == 2
\* largest number a user types into the page-number input
MaxPageInput == 4

\* ------------------------------------------------------------- characters
\* the characters used, in ascending code-point order
CharOrder ==
  << " ", "-", "0", "1", "2", "3", "4", "5", "6", "7", "8", "9", ":",
     "A", "B", "C", "D", "E", "F", "G", "H", "I", "J", "K", "L", "M",
     "N", "O", "P", "Q", "R", "S", "T", "U", "V", "W", "X", "Y", "Z",
     "a", "b", "c", "d", "e", "f", "g", "h", "i", "j", "k", "l", "m",
     "n", "o", "p", "q", "r", "s", "t", "u", "v", "w", "x", "y", "z" >>

Rank ==
  [c \in {CharOrder[i] : i \in 1..Len(CharOrder)} |->
     CHOOSE i \in 1..Len(CharOrder) : CharOrder[i] = c]

DigitChars == << "0", "1", "2", "3", "4", "5", "6", "7", "8", "9" >>

IsDigit(c) == Rank[c] >= 3 /\ Rank[c] <= 12

DigitVal(c) == Rank[c] - 3

\* str.lower() on one character
LowerChar(c) == IF Rank[c] >= 14 /\ Rank[c] <= 39 THEN CharOrder[Rank[c] + 26] ELSE c

\* str.lower()
Lower(s) == [i \in 1..Len(s) |-> LowerChar(s[i])]

\* not s.strip(): empty or whitespace only
IsBlank(s) == \A i \in 1..Len(s) : s[i] = " "

\* Python's string order: s < t
RECURSIVE StrLess(_, _)
StrLess(s, t) ==
  IF t = << >> THEN FALSE
  ELSE IF s = << >> THEN TRUE
  ELSE IF s[1] # t[1] THEN Rank[s[1]] < Rank[t[1]]
  ELSE StrLess(Tail(s), Tail(t))

StrLeq(s, t) == s = t \/ StrLess(s, t)

\* sorted(values) of a set of distinct strings
RECURSIVE SortedSeq(_)
SortedSeq(S) ==
  IF S = {} THEN << >>
  ELSE LET m == CHOOSE x \in S : \A y \in S : StrLeq(x, y)
       IN  << m >> \o SortedSeq(S \ {m})

NA == << "N", "o", "t", " ", "A", "v", "a", "i", "l", "a", "b", "l", "e" >>

ALL == << "A", "l", "l" >>

\* a missing cell (NaN), and a failed parse (NaT)
Null == << >>

Max2(a, b) == IF a >= b THEN a ELSE b

Min2(a, b) == IF a <= b THEN a ELSE b

\* ------------------------------------------------------------ date parsing
\* s.split(sep), keeping empty parts
RECURSIVE SplitAcc(_, _, _, _)
SplitAcc(s, sep, cur, acc) ==
  IF s = << >> THEN Append(acc, cur)
  ELSE IF s[1] = sep THEN SplitAcc(Tail(s), sep, << >>, Append(acc, cur))
  ELSE SplitAcc(Tail(s), sep, Append(cur, s[1]), acc)

Split(s, sep) == SplitAcc(s, sep, << >>, << >>)

AllDigits(s) == \A i \in 1..Len(s) : IsDigit(s[i])

RECURSIVE NumVal(_)
NumVal(s) == IF s = << >> THEN 0 ELSE 10 * NumVal(SubSeq(s, 1, Len(s) - 1)) + DigitVal(s[Len(s)])

\* a %d, %m, %H, %M or %S field: one or two digits
IsNum12(s) == Len(s) \in 1..2 /\ AllDigits(s)

\* a %Y field: four digits
IsNum4(s) == Len(s) = 4 /\ AllDigits(s)

IsLeap(y) == (y % 4 = 0 /\ y % 100 # 0) \/ y % 400 = 0

DaysIn(m, y) ==
  IF m = 2 THEN (IF IsLeap(y) THEN 29 ELSE 28)
  ELSE IF m \in {4, 6, 9, 11} THEN 30 ELSE 31

Pad2(n) == << DigitChars[(n \div 10) + 1], DigitChars[(n % 10) + 1] >>

Midnight == << "0", "0", ":", "0", "0", ":", "0", "0" >>

\* the text matches %d-%m-%Y and names a calendar day
ValidDMY(s) ==
  LET p == Split(s, "-")
  IN  /\ Len(p) = 3
      /\ IsNum12(p[1]) /\ IsNum12(p[2]) /\ IsNum4(p[3])
      /\ NumVal(p[2]) \in 1..12
      /\ NumVal(p[1]) >= 1
      /\ NumVal(p[1]) <= DaysIn(NumVal(p[2]), NumVal(p[3]))

\* the text matches %H:%M:%S
ValidHMS(s) ==
  LET p == Split(s, ":")
  IN  /\ Len(p) = 3
      /\ IsNum12(p[1]) /\ IsNum12(p[2]) /\ IsNum12(p[3])
      /\ NumVal(p[1]) <= 23 /\ NumVal(p[2]) <= 59 /\ NumVal(p[3]) <= 59

\* the calendar date of a valid %d-%m-%Y text, written YYYY-MM-DD
IsoDate(s) ==
  LET p == Split(s, "-")
  IN  p[3] \o << "-" >> \o Pad2(NumVal(p[2])) \o << "-" >> \o Pad2(NumVal(p[1]))

IsoTime(s) ==
  LET p == Split(s, ":")
  IN  Pad2(NumVal(p[1])) \o << ":" >> \o Pad2(NumVal(p[2])) \o << ":" >> \o Pad2(NumVal(p[3]))

\* pd.to_datetime(text, format='%d-%m-%Y', errors='coerce'): a timestamp at
\* midnight, held as its text YYYY-MM-DD HH:MM:SS, or NaT
ParseDate(s) ==
  IF ValidDMY(s) THEN IsoDate(s) \o << " " >> \o Midnight ELSE Null

\* pd.to_datetime(text, format='%d-%m-%Y %H:%M:%S', errors='coerce')
ParseDateTime(s) ==
  LET p == SelectSeq(Split(s, " "), LAMBDA x : x # << >>)
  IN  IF Len(p) = 2 /\ ValidDMY(p[1]) /\ ValidHMS(p[2])
      THEN IsoDate(p[1]) \o << " " >> \o IsoTime(p[2])
      ELSE Null

\* Timestamp.date(): the calendar date of a timestamp
DateOf(ts) == SubSeq(ts, 1, 10)

\* ------------------------------------------------------- fuzzy match score
\* one row of the longest-common-subsequence table: prev is the row of the
\* previous character of s (columns 0..Len(t), held at 1..Len(t)+1)
RECURSIVE LcsRow(_, _, _, _, _)
LcsRow(prev, a, t, j, acc) ==
  IF j > Len(t) THEN acc
  ELSE LET cell == IF a = t[j] THEN prev[j] + 1 ELSE Max2(prev[j + 1], acc[j])
           nxt  == Append(acc, cell)
       IN  IF Len(nxt) = j + 1 THEN LcsRow(prev, a, t, j + 1, nxt) ELSE acc

RECURSIVE LcsRows(_, _, _, _)
LcsRows(s, t, i, prev) ==
  IF i > Len(s) THEN prev[Len(t) + 1]
  ELSE LET row == LcsRow(prev, s[i], t, 1, << 0 >>)
       IN  IF Len(row) = Len(t) + 1 THEN LcsRows(s, t, i + 1, row) ELSE 0

\* length of the longest common subsequence
Lcs(s, t) == LcsRows(s, t, 1, [j \in 1..(Len(t) + 1) |-> 0])

\* fuzz.ratio as the fraction <<2 * lcs, len(s) + len(t)>> of 100
Ratio(s, t) ==
  IF Len(s) + Len(t) = 0 THEN << 1, 1 >> ELSE << 2 * Lcs(s, t), Len(s) + Len(t) >>

\* fraction a scores no more than fraction b
FracLeq(a, b) == a[1] * b[2] <= b[1] * a[2]

Chars(s) == { s[i] : i \in 1..Len(s) }

\* the windows of the longer text a needle is aligned with: its prefixes
\* shorter than the needle, every full window of the needle's length, and
\* its suffixes; a window is tried only when the character at its moving
\* edge occurs in the needle
Windows(needle, long) ==
  LET n == Len(needle)
      m == Len(long)
  IN  { SubSeq(long, 1, i) : i \in { k \in 1..(n - 1) : long[k] \in Chars(needle) } }
        \cup { SubSeq(long, i, i + n - 1) :
                 i \in { k \in 1..(m - n) : long[k + n - 1] \in Chars(needle) } }
        \cup { SubSeq(long, i, m) :
                 i \in { k \in (m - n + 1)..m : long[k] \in Chars(needle) } }

\* best alignment of the needle in the longer text
PartialImpl(needle, long) ==
  LET scores == { Ratio(needle, x) : x \in Windows(needle, long) }
  IN  IF scores = {} THEN << 0, 1 >>
      ELSE CHOOSE x \in scores : \A y \in scores : FracLeq(y, x)

\* fuzz.partial_ratio(s1, s2) as a fraction of 100: the shorter text is the
\* needle; texts of equal length are tried both ways
PartialRatio(s1, s2) ==
  IF s1 = << >> /\ s2 = << >> THEN << 1, 1 >>
  ELSE IF s1 = << >> \/ s2 = << >> THEN << 0, 1 >>
  ELSE IF Len(s1) < Len(s2) THEN PartialImpl(s1, s2)
  ELSE IF Len(s2) < Len(s1) THEN PartialImpl(s2, s1)
  ELSE LET a == PartialImpl(s1, s2)
           b == PartialImpl(s2, s1)
       IN  IF FracLeq(b, a) THEN a ELSE b

\* the cut-off of the search: score > 70
ScoreThreshold == 70

\* a slip: score >= 70
MatchesAtLeast(score) == 100 * score[1] >= ScoreThreshold * score[2]

Matches(score) == 100 * score[1] > ScoreThreshold * score[2]

\* ------------------------------------------------------------ the worksheet
CascadeCols ==
  << "Cluster", "ASM", "SDE", "Auditor Name", "Distributor Code",
     "Salesman", "route_name", "Outlet Name" >>

ImageCols == << "Image 1", "Image 2", "Image 3", "Image 4", "Image 5", "Image 6" >>

\* the columns of a complete worksheet
SheetCols ==
  { CascadeCols[k] : k \in 1..8 } \cup { ImageCols[k] : k \in 1..6 }
    \cup { "Absent Reason", "Date", "Time Stamp", "Distributor Name", "Outlet Code" }

Pick(seq, k) == seq[(k % Len(seq)) + 1]

\* the cell of worksheet row i in column c, as get_as_dataframe returns it:
\* text, or Null for an empty cell
CellOf(c, i) ==
  CASE c = "Cluster" -> Pick(<< << "N" >>, << "S" >> >>, i)
    [] c = "ASM" -> Pick(<< << "A", "n", "n" >>, << "B", "o", "b" >> >>, i \div 2)
    [] c = "SDE" -> IF i % 3 = 0 THEN Null ELSE << "S", "a", "m" >>
    [] c = "Auditor Name" -> Pick(<< << "r", "a", "v", "i" >>, << "R", "a", "j" >> >>, i)
    [] c = "Distributor Code" ->
         Pick(<< << "1", "2", "3" >>, << "0", "0", "1", "2", "3" >> >>, i \div 2)
    [] c = "Salesman" -> << "T", "o", "m" >>
    [] c = "route_name" -> Pick(<< << "r", "2" >>, << "r", "1" >> >>, i \div 3)
    [] c = "Outlet Name" -> Pick(<< << "M", "a", "r", "t" >>, << "K", "i", "o", "s", "k" >> >>, i)
    [] c = "Absent Reason" ->
         IF i % 2 = 0 THEN Null ELSE Pick(<< << "S", "i", "c", "k" >>, << "L", "e", "a", "v", "e" >> >>, i \div 2)
    [] c = "Date" ->
         IF i % 9 = 4 THEN << "3", "1", "-", "0", "2", "-", "2", "0", "2", "4" >>
         ELSE (IF i % 2 = 0 THEN Pad2(1 + (i % 3)) ELSE << DigitChars[2 + (i % 3)] >>)
                \o << "-", "0", "1", "-", "2", "0", "2", "4" >>
    [] c = "Time Stamp" ->
         IF i % 8 = 2 THEN Null
         ELSE Pad2((i * 7) % 24) \o << ":" >> \o Pad2(i % 60) \o << ":", "0", "0" >>
    [] c = "Distributor Name" ->
         IF i % 4 = 1 THEN << "A", "b", "c", "d", "P", "q", "r", "e", "f", "g" >>
         ELSE << "D", "x" >>
    [] c = "Outlet Code" -> Pad2(i % 100)
    [] OTHER ->
         \* the six image columns: a link, an empty cell, or a blank
         LET k == CHOOSE j \in 1..6 : ImageCols[j] = c
         IN  IF (i + k) % 3 = 0 THEN Null
             ELSE IF (i + k) % 5 = 0 THEN << " " >>
             ELSE << "u", DigitChars[k + 1] >>

\* the table get_as_dataframe returns for a worksheet of n rows with the
\* given columns: row i carries the index label i - 1 and its cells
SheetRows(n, cols) ==
  [i \in 1..n |-> [ix |-> i - 1, cells |-> [c \in cols |-> CellOf(c, i)]]]

\* ---------------------------------------------------------- preprocessing
\* df.fillna("Not Available"): every null cell of every column
FillNa(rows) ==
  [k \in 1..Len(rows) |->
     [ix |-> rows[k].ix,
      cells |-> [c \in DOMAIN rows[k].cells |->
                   IF rows[k].cells[c] = Null THEN NA ELSE rows[k].cells[c]]]]

\* lines 39-40: the DateTime column from Date + ' ' + Time Stamp, then Date
\* replaced by its parsed value
WithDates(rows) ==
  [k \in 1..Len(rows) |->
     [ix |-> rows[k].ix,
      cells |-> [c \in DOMAIN rows[k].cells \cup { "DateTime" } |->
                   IF c = "DateTime"
                   THEN ParseDateTime(rows[k].cells["Date"] \o << " " >>
                                        \o rows[k].cells["Time Stamp"])
                   ELSE IF c = "Date" THEN ParseDate(rows[k].cells["Date"])
                   ELSE rows[k].cells[c]]]]

\* df.dropna(subset=['Date'])
DropNaDate(rows) == SelectSeq(rows, LAMBDA r : r.cells["Date"] # Null)

\* a sorts no later than b under sort_values(by='DateTime'): ascending, NaT last
DateTimeLeq(a, b) ==
  IF b.cells["DateTime"] = Null THEN TRUE
  ELSE IF a.cells["DateTime"] = Null THEN FALSE
  ELSE StrLeq(a.cells["DateTime"], b.cells["DateTime"])

\* insert r after the rows that sort no later than it
RECURSIVE InsertSorted(_, _)
InsertSorted(sorted, r) ==
  IF sorted = << >> THEN << r >>
  ELSE IF DateTimeLeq(sorted[1], r) THEN << sorted[1] >> \o InsertSorted(Tail(sorted), r)
  ELSE << r >> \o sorted

\* df.sort_values(by='DateTime'); rows with equal keys keep their order
RECURSIVE SortByDateTime(_)
SortByDateTime(rows) ==
  IF rows = << >> THEN << >>
  ELSE InsertSorted(SortByDateTime(SubSeq(rows, 1, Len(rows) - 1)), rows[Len(rows)])

\* lines 37-46 on a freshly fetched table that has Date and Time Stamp
Preprocess(rows) == SortByDateTime(DropNaDate(WithDates(FillNa(rows))))

\* ------------------------------------------------------- frames and widgets
\* A frame derived from df (df1..df8, filtered, paginated) is held as the
\* sequence of index labels of its rows; its cells are those of df.
Labels(rows) == [k \in 1..Len(rows) |-> rows[k].ix]

Elems(f) == { f[k] : k \in 1..Len(f) }

CellsOf(rows, label) == rows[CHOOSE k \in 1..Len(rows) : rows[k].ix = label].cells

\* str(value) of a cell: text as it is, NaN and NaT by their names
AsStr(cell, col) ==
  IF cell # Null THEN cell
  ELSE IF col \in { "Date", "DateTime" } THEN << "N", "a", "T" >>
  ELSE << "n", "a", "n" >>

\* the values a dropdown compares: the column, Distributor Code via astype(str)
ColText(rows, label, col) ==
  IF col = "Distributor Code" THEN AsStr(CellsOf(rows, label)[col], col)
  ELSE CellsOf(rows, label)[col]

\* a slip: the candidates taken from the whole table instead of the running one
CandidatesOfWhole(rows, f, col) ==
  << ALL >> \o SortedSeq({ ColText(rows, l, col) : l \in Elems(Labels(rows)) })

\* ['All'] + sorted(frame[col].unique())
Candidates(rows, f, col) ==
  << ALL >> \o SortedSeq({ ColText(rows, l, col) : l \in Elems(f) })

\* a slip: every dropdown narrowing on the first dropdown's column
NarrowByCluster(rows, f, col, value) ==
  IF value = ALL THEN f
  ELSE SelectSeq(f, LAMBDA l : ColText(rows, l, "Cluster") = value)

\* frame if value == 'All' else frame[frame[col] == value]
Narrow(rows, f, col, value) ==
  IF value = ALL THEN f
  ELSE SelectSeq(f, LAMBDA l : ColText(rows, l, col) = value)

\* st.selectbox(label, options): the session's value for the widget when it
\* is one of the options offered now, else the first option
SelectboxValue(options, stored) ==
  IF \E i \in 1..Len(options) : options[i] = stored THEN stored ELSE options[1]

\* st.date_input(label, value=default): the user's date, else the default
DateInputValue(default, stored) == IF stored = Null THEN default ELSE stored

\* st.number_input(label, min_value=lo, max_value=hi, value=1)
NumberInputValue(lo, hi, stored) == IF stored >= lo /\ stored <= hi THEN stored ELSE lo

\* lines 59-91: the eight cascading dropdowns, from dropdown k on; acc holds
\* the candidate lists, chosen values and running frames so far, and err is
\* set when the column of a dropdown is not in the table
RECURSIVE Cascade(_, _, _, _, _)
Cascade(rows, cols, stored, k, acc) ==
  IF k > Len(CascadeCols) THEN acc
  ELSE IF CascadeCols[k] \notin cols THEN [acc EXCEPT !.err = TRUE]
  ELSE LET run  == IF k = 1 THEN Labels(rows) ELSE acc.df[k - 1]
           opts == Candidates(rows, run, CascadeCols[k])
           v    == SelectboxValue(opts, stored[k])
       IN  Cascade(rows, cols, stored, k + 1,
                   [cand |-> Append(acc.cand, opts),
                    sel  |-> Append(acc.sel, v),
                    df   |-> Append(acc.df, Narrow(rows, run, CascadeCols[k], v)),
                    err  |-> FALSE])

\* frame['Date'].min().date() and .max().date() of a frame with rows
MinDate(rows, f) ==
  LET ds == { DateOf(CellsOf(rows, l)["Date"]) : l \in Elems(f) }
  IN  CHOOSE d \in ds : \A e \in ds : StrLeq(d, e)

\* a slip: the default To Date taken as the earliest date
MaxDateAsMin(rows, f) ==
  LET ds == { DateOf(CellsOf(rows, l)["Date"]) : l \in Elems(f) }
  IN  CHOOSE d \in ds : \A e \in ds : StrLeq(d, e)

MaxDate(rows, f) ==
  LET ds == { DateOf(CellsOf(rows, l)["Date"]) : l \in Elems(f) }
  IN  CHOOSE d \in ds : \A e \in ds : StrLeq(e, d)

\* line 114: filtered[filtered['Absent Reason'] == absent]
AbsentFilter(rows, f, absent) ==
  SelectSeq(f, LAMBDA l : CellsOf(rows, l)["Absent Reason"] = absent)

\* a slip: the lower bound exclusive
DateFilterExclusive(rows, f, from, to) ==
  SelectSeq(f, LAMBDA l :
    LET d == DateOf(CellsOf(rows, l)["Date"])
    IN  from # Null /\ to # Null /\ StrLess(from, d) /\ StrLeq(d, to))

\* line 115: (Date.dt.date >= from_date) & (Date.dt.date <= to_date); a
\* comparison with NaT is false
DateFilter(rows, f, from, to) ==
  SelectSeq(f, LAMBDA l :
    LET d == DateOf(CellsOf(rows, l)["Date"])
    IN  from # Null /\ to # Null /\ StrLeq(from, d) /\ StrLeq(d, to))

\* line 53: any(fuzz.partial_ratio(str(cell).lower(), query) > 70 for cell in row)
RowMatches(cells, query) ==
  \E c \in DOMAIN cells : Matches(PartialRatio(Lower(AsStr(cells[c], c)), query))

\* lines 49-54: fuzzy_filter(df, query)
fuzzy_filter(rows, f, query) ==
  IF IsBlank(query) THEN f
  ELSE SelectSeq(f, LAMBDA l : RowMatches(CellsOf(rows, l), Lower(query)))

page_size == 10

\* a slip: len(filtered) // page_size + 1
TotalPagesFloor(n) == Max2(1, (n \div page_size) + 1)

\* line 121: max(1, (len(filtered) - 1) // page_size + 1)
TotalPages(n) == Max2(1, ((n - 1) \div page_size) + 1)

\* lines 128-130: filtered.iloc[(page - 1) * page_size : (page - 1) * page_size + page_size]
PageSlice(f, p) ==
  LET start == (p - 1) * page_size
      end   == start + page_size
  IN  SubSeq(f, Min2(start, Len(f)) + 1, Min2(end, Len(f)))

\* line 158: the image is shown unless the cell is the sentinel or blank
ImageShown(url) == url # NA /\ ~IsBlank(url)

\* the columns the record renderer reads (lines 142-157)
RenderCols ==
  { "Auditor Name", "DateTime", "Distributor Name", "Distributor Code", "route_name",
    "Salesman", "SDE", "ASM", "Cluster", "Outlet Name", "Outlet Code", "Absent Reason" }
    \cup { ImageCols[k] : k \in 1..6 }

\* -------------------------------------------------------------------- state
VARIABLES
  sheet,        \* the remote worksheet: [ok, cols, rows]; ok = the fetch succeeds
  cache,        \* the st.cache_resource entry: [valid, cols, parsed, rows]
  pc,           \* position of the script, "idle" between runs
  ev,           \* what started the current run
  w,            \* the session's widget values
  status,       \* "running", "ok", or the error that ended the run
  ui,           \* the elements the current run has put on the page
  form,         \* what the filter form computed and returned
  presearch,    \* filtered before the search step (after line 115)
  filtered,     \* filtered after line 117
  total_pages,
  page,
  paginated,
  exported,     \* the rows written to the download buffer
  shown         \* the records rendered

vars ==
  << sheet, cache, pc, ev, w, status, ui, form, presearch, filtered,
     total_pages, page, paginated, exported, shown >>

\* the outputs of a run, before the run has produced them
NoForm ==
  [cand |-> << >>, sel |-> << >>, df |-> << >>, absent |-> ALL, search |-> << >>,
   from_date |-> Null, to_date |-> Null, submit |-> FALSE, reset |-> FALSE]

\* a fresh session: every dropdown on its first option, no search text, no
\* date picked, page 1
DefaultWidgets ==
  [sel |-> [k \in 1..8 |-> ALL], absent |-> ALL, search |-> << >>,
   from_date |-> Null, to_date |-> Null, page |-> 1]

NoCache == [valid |-> FALSE, cols |-> {}, parsed |-> FALSE, rows |-> << >>]

\* a run starts: lines 13-14 put the title on an otherwise empty page
StartRun(e) ==
  /\ pc' = "load"
  /\ ev' = e
  /\ status' = "running"
  /\ ui' = { "title" }
  /\ form' = NoForm
  /\ presearch' = << >>
  /\ filtered' = << >>
  /\ total_pages' = 0
  /\ page' = 0
  /\ paginated' = << >>
  /\ exported' = << >>
  /\ shown' = << >>

\* the run ends at this point with an error on the page
EndWith(err, element) ==
  /\ status' = err
  /\ ui' = ui \cup { element }
  /\ pc' = "idle"

\* ------------------------------------------------------------ script steps
\* lines 30-34: df = get_google_sheet_data(), served from the cache when it
\* holds an entry; a failed fetch is reported and stops the run
StageLoad ==
  /\ pc = "load"
  /\ IF cache.valid
     THEN /\ pc' = "prep"
          /\ UNCHANGED << cache, status, ui >>
     ELSE IF sheet.ok
     THEN /\ cache' = [valid |-> TRUE, cols |-> sheet.cols, parsed |-> FALSE,
                       rows |-> sheet.rows]
          /\ pc' = "prep"
          /\ UNCHANGED << status, ui >>
     ELSE /\ EndWith("FetchError", "error")
          /\ UNCHANGED cache
  /\ UNCHANGED << sheet, ev, w, form, presearch, filtered, total_pages, page,
                  paginated, exported, shown >>

\* lines 37-46, all in place on the cached object.  When Date already holds
\* timestamps (an earlier run parsed it), fillna still runs and Date + ' '
\* raises TypeError.
StagePrep ==
  /\ pc = "prep"
  /\ IF cache.parsed
     THEN /\ cache' = [cache EXCEPT !.rows = FillNa(cache.rows)]
          /\ EndWith("TypeError", "exception")
     ELSE IF { "Date", "Time Stamp" } \subseteq cache.cols
     THEN /\ cache' = [cache EXCEPT !.rows = Preprocess(cache.rows),
                                    !.cols = cache.cols \cup { "DateTime" },
                                    !.parsed = TRUE]
          /\ pc' = "form"
          /\ UNCHANGED << status, ui >>
     ELSE /\ cache' = [cache EXCEPT !.rows = FillNa(cache.rows)]
          /\ EndWith("SchemaError", "error")
  /\ UNCHANGED << sheet, ev, w, form, presearch, filtered, total_pages, page,
                  paginated, exported, shown >>

\* lines 57-106: the filter form.  A missing dropdown column raises KeyError
\* after the dropdowns before it were drawn.  On an empty df8 the default of
\* the date inputs is NaT: the date input either raises or goes on with NaT.
StageForm ==
  /\ pc = "form"
  /\ LET c    == Cascade(cache.rows, cache.cols, w.sel, 1,
                         [cand |-> << >>, sel |-> << >>, df |-> << >>, err |-> FALSE])
         done == { CascadeCols[k] : k \in 1..Len(c.sel) }
     IN  IF c.err \/ "Absent Reason" \notin cache.cols
         THEN /\ form' = [NoForm EXCEPT !.cand = c.cand, !.sel = c.sel, !.df = c.df]
              /\ status' = "KeyError"
              /\ ui' = ui \cup { "subheader", "exception" } \cup done
              /\ pc' = "idle"
         ELSE LET df8  == c.df[8]
                  opts == Candidates(cache.rows, df8, "Absent Reason")
                  base == [NoForm EXCEPT !.cand = Append(c.cand, opts), !.sel = c.sel,
                                         !.df = c.df,
                                         !.absent = SelectboxValue(opts, w.absent),
                                         !.search = w.search]
              IN  IF df8 = << >>
                  THEN \/ /\ form' = base
                          /\ status' = "ValueError"
                          /\ ui' = ui \cup { "subheader", "exception", "Absent Reason",
                                             "search" } \cup done
                          /\ pc' = "idle"
                       \/ /\ form' = [base EXCEPT !.from_date = DateInputValue(Null, w.from_date),
                                                  !.to_date = DateInputValue(Null, w.to_date),
                                                  !.submit = (ev = "apply"),
                                                  !.reset = (ev = "reset")]
                          /\ ui' = ui \cup { "subheader", "Absent Reason", "search",
                                             "from_date", "to_date", "submit", "reset" }
                                      \cup done
                          /\ pc' = "reset"
                          /\ UNCHANGED status
                  ELSE /\ form' = [base EXCEPT
                                     !.from_date = DateInputValue(MinDate(cache.rows, df8), w.from_date),
                                     !.to_date = DateInputValue(MaxDate(cache.rows, df8), w.to_date),
                                     !.submit = (ev = "apply"),
                                     !.reset = (ev = "reset")]
                       /\ ui' = ui \cup { "subheader", "Absent Reason", "search",
                                          "from_date", "to_date", "submit", "reset" }
                                   \cup done
                       /\ pc' = "reset"
                       /\ UNCHANGED status
  /\ UNCHANGED << sheet, cache, ev, w, presearch, filtered, total_pages, page,
                  paginated, exported, shown >>

\* lines 108-109: after Reset, st.experimental_rerun() starts the script
\* again in the same session, with the widget values it has
StageReset ==
  /\ pc = "reset"
  /\ IF form.reset
     THEN StartRun("rerun")
     ELSE /\ pc' = "filter"
          /\ UNCHANGED << ev, status, ui, form, presearch, filtered, total_pages,
                          page, paginated, exported, shown >>
  /\ UNCHANGED << sheet, cache, w >>

\* lines 111-115: a copy of df8; Absent Reason and the dates only when the
\* run was started by Apply
StageFilter ==
  /\ pc = "filter"
  /\ LET df8 == form.df[8]
         a   == IF form.absent # ALL
                THEN AbsentFilter(cache.rows, df8, form.absent) ELSE df8
     IN  presearch' = IF form.submit
                      THEN DateFilter(cache.rows, a, form.from_date, form.to_date)
                      ELSE df8
  /\ pc' = "search"
  /\ UNCHANGED << sheet, cache, ev, w, status, ui, form, filtered, total_pages,
                  page, paginated, exported, shown >>

\* lines 116-117: the search, only when the run was started by Apply and
\* the search text is not empty
StageSearch ==
  /\ pc = "search"
  /\ filtered' = IF form.submit /\ form.search # << >>
                 THEN fuzzy_filter(cache.rows, presearch, form.search)
                 ELSE presearch
  /\ pc' = "page"
  /\ UNCHANGED << sheet, cache, ev, w, status, ui, form, presearch, total_pages,
                  page, paginated, exported, shown >>

\* lines 119-130
StagePage ==
  /\ pc = "page"
  /\ total_pages' = TotalPages(Len(filtered))
  /\ page' = NumberInputValue(1, TotalPages(Len(filtered)), w.page)
  /\ paginated' = PageSlice(filtered, NumberInputValue(1, TotalPages(Len(filtered)), w.page))
  /\ ui' = ui \cup { "page_input", "total_pages" }
  /\ pc' = "download"
  /\ UNCHANGED << sheet, cache, ev, w, status, form, presearch, filtered,
                  exported, shown >>

\* lines 133-136: filtered.to_excel(buffer, index=False) and the download button
StageDownload ==
  /\ pc = "download"
  /\ exported' = [k \in 1..Len(filtered) |-> CellsOf(cache.rows, filtered[k])]
  /\ ui' = ui \cup { "download" }
  /\ pc' = "render"
  /\ UNCHANGED << sheet, cache, ev, w, status, form, presearch, filtered,
                  total_pages, page, paginated, shown >>

\* lines 139-161: one record per row of the page; reading a column the table
\* lacks raises KeyError inside the first record
StageRender ==
  /\ pc = "render"
  /\ IF paginated # << >> /\ ~(RenderCols \subseteq cache.cols)
     THEN /\ status' = "KeyError"
          /\ ui' = ui \cup { "records", "exception" }
          /\ UNCHANGED shown
     ELSE /\ shown' = [k \in 1..Len(paginated) |->
                         LET cells == CellsOf(cache.rows, paginated[k])
                         IN  [sno |-> paginated[k] + 1,
                              auditor |-> cells["Auditor Name"],
                              images |-> [j \in 1..6 |-> ImageShown(cells[ImageCols[j]])]]]
          /\ status' = "ok"
          /\ ui' = IF paginated # << >> THEN ui \cup { "records" } ELSE ui
  /\ pc' = "idle"
  /\ UNCHANGED << sheet, cache, ev, w, form, presearch, filtered, total_pages,
                  page, paginated, exported >>

\* ------------------------------------------------------------- user inputs
Day2 == << "2", "0", "2", "4", "-", "0", "1", "-", "0", "2" >>

Day3 == << "2", "0", "2", "4", "-", "0", "1", "-", "0", "3" >>

\* the form widgets: 1..8 the cascading dropdowns, then Absent Reason, the
\* search box, From Date, To Date
Slots == 1..12

SmallSlotSets(maxc) == { X \in SUBSET Slots : Cardinality(X) <= maxc }

\* the session's widget values after the user set the widgets in S to g
WidgetsWith(S, g, p) ==
  [sel |-> [k \in 1..8 |-> IF k \in S THEN g[k] ELSE ALL],
   absent |-> IF 9 \in S THEN g[9] ELSE ALL,
   search |-> IF 10 \in S THEN g[10] ELSE << >>,
   from_date |-> IF 11 \in S THEN g[11] ELSE Null,
   to_date |-> IF 12 \in S THEN g[12] ELSE Null,
   page |-> p]

\* the search texts tried in the pipeline: a blank and a short word
ShortQueries == { << " " >>, << "r", "a" >> }

\* the search texts tried against the search step: blank, no match, a short
\* match, a text scoring exactly 70 and one scoring 80 against a cell
LongQueries ==
  { << " ", " " >>,
    << "z", "z" >>,
    << "R", "A", "J" >>,
    << "a", "b", "c", "d", "u", "v", "w", "e", "f", "g" >>,
    << "A", "B", "C", "D", "P", "V", "W", "E", "F", "G" >> }

\* the values other than the default a user can give each widget, the
\* dropdowns offering what a list of candidates holds
Alternatives(cands, queries, dates) ==
  [x \in Slots |->
     IF x <= 9 THEN { cands[x][i] : i \in 2..Len(cands[x]) }
     ELSE IF x = 10 THEN queries
     ELSE dates]

\* every value of every dropdown column of the table
AllCandidates(rows) ==
  [x \in 1..9 |->
     Candidates(rows, Labels(rows), IF x <= 8 THEN CascadeCols[x] ELSE "Absent Reason")]

\* the user sets at most maxc form widgets and the page number, and the
\* script runs on those values
InputStep(alts, pages, evs, maxc) ==
  /\ pc = "input"
  /\ \E S \in SmallSlotSets(maxc) :
       \E g \in [S -> UNION { alts[x] : x \in S }] :
         /\ \A x \in S : g[x] \in alts[x]
         /\ \E p \in pages : w' = WidgetsWith(S, g, p)
  /\ \E e \in evs : ev' = e
  /\ pc' = "form"
  /\ UNCHANGED << sheet, cache, status, ui, form, presearch, filtered,
                  total_pages, page, paginated, exported, shown >>

\* any form values, any of Apply, a plain rerun, or Reset
PipeInput ==
  InputStep(Alternatives(AllCandidates(cache.rows), ShortQueries, { Day2, Day3 }),
            { 1 }, { "apply", "page", "reset" }, MaxChanged)

\* dates and a page number over the larger tables
PageInput ==
  InputStep([x \in Slots |-> IF x >= 11 THEN { Day2, Day3 } ELSE {}],
            1..MaxPageInput, { "apply", "page" }, MaxChanged)

\* search texts and dates
SearchInput ==
  InputStep([x \in Slots |-> IF x = 10 THEN LongQueries
                            ELSE IF x >= 11 THEN { Day2, Day3 } ELSE {}],
            { 1 }, { "apply", "page" }, MaxChanged)

\* the user edits the form, choosing among the options on the page, and
\* presses Apply; the form's values reach the session and the script reruns
UserApply ==
  /\ pc = "idle" /\ "submit" \in ui
  /\ LET alts == Alternatives(form.cand, ShortQueries, { Day2, Day3 })
     IN  \E S \in SmallSlotSets(MaxChanged) :
           \E g \in [S -> UNION { alts[x] : x \in S }] :
             /\ \A x \in S : g[x] \in alts[x]
             /\ w' = WidgetsWith(S, g, w.page)
  /\ StartRun("apply")
  /\ UNCHANGED << sheet, cache >>

\* the same with the Reset button
UserReset ==
  /\ pc = "idle" /\ "reset" \in ui
  /\ LET alts == Alternatives(form.cand, ShortQueries, { Day2, Day3 })
     IN  \E S \in SmallSlotSets(MaxChanged) :
           \E g \in [S -> UNION { alts[x] : x \in S }] :
             /\ \A x \in S : g[x] \in alts[x]
             /\ w' = WidgetsWith(S, g, w.page)
  /\ StartRun("reset")
  /\ UNCHANGED << sheet, cache >>

\* the user changes the page number within the bounds of the input
UserPage ==
  /\ pc = "idle" /\ "page_input" \in ui
  /\ \E p \in 1..total_pages : p # w.page /\ w' = [w EXCEPT !.page = p]
  /\ StartRun("page")
  /\ UNCHANGED << sheet, cache >>

\* the user presses the download button, which reruns the script
UserDownload ==
  /\ pc = "idle" /\ "download" \in ui
  /\ StartRun("download")
  /\ UNCHANGED << sheet, cache, w >>

\* the user reloads the page: a new session of the same process
UserReload ==
  /\ pc = "idle"
  /\ w' = DefaultWidgets
  /\ StartRun("load")
  /\ UNCHANGED << sheet, cache >>

\* ----------------------------------------------------------- specifications
CompleteSheet(n) == [ok |-> TRUE, cols |-> SheetCols, rows |-> SheetRows(n, SheetCols)]

\* worksheets of the lifecycle: complete ones, one-row ones lacking one
\* column, and one that cannot be fetched
LifecycleSheets ==
  { CompleteSheet(n) : n \in (0..MaxRows) \cup { TwoPageRows } }
    \cup { [ok |-> TRUE, cols |-> SheetCols \ { c }, rows |-> SheetRows(1, SheetCols \ { c })] :
             c \in SheetCols }
    \cup { [ok |-> FALSE, cols |-> SheetCols, rows |-> << >>] }

NoOutputs ==
  /\ status = "running"
  /\ ui = { "title" }
  /\ form = NoForm
  /\ presearch = << >>
  /\ filtered = << >>
  /\ total_pages = 0
  /\ page = 0
  /\ paginated = << >>
  /\ exported = << >>
  /\ shown = << >>

\* a process that has just started its first run
Init ==
  /\ sheet \in LifecycleSheets
  /\ cache = NoCache
  /\ pc = "load"
  /\ ev = "load"
  /\ w = DefaultWidgets
  /\ NoOutputs

\* the script from the filter form on
Body ==
  \/ StageForm \/ StageReset \/ StageFilter
  \/ StageSearch \/ StagePage \/ StageDownload \/ StageRender

Script == StageLoad \/ StagePrep \/ Body

Next ==
  \/ Script
  \/ UserApply \/ UserReset \/ UserPage \/ UserDownload \/ UserReload

Spec == Init /\ [][Next]_vars

\* the first run of a process, after line 46 and before the form, on a
\* complete worksheet of at most maxn rows
InitClean(maxn) ==
  /\ sheet \in { CompleteSheet(n) : n \in 0..maxn }
  /\ cache = [valid |-> TRUE, cols |-> SheetCols \cup { "DateTime" }, parsed |-> TRUE,
              rows |-> Preprocess(sheet.rows)]
  /\ pc = "input"
  /\ ev = "load"
  /\ w = DefaultWidgets
  /\ NoOutputs

InitPipe == InitClean(MaxRows)

NextPipe == PipeInput \/ Script

\* the script from the form on, over every choice of widget values
PipeSpec == InitPipe /\ [][NextPipe]_vars

InitPage == InitClean(MaxPageRows)

NextPage == PageInput \/ Body

\* the same over tables of several pages
PageSpec == InitPage /\ [][NextPage]_vars

InitSearch == InitClean(MaxRows)

NextSearch == SearchInput \/ Body

\* the same over the search texts
SearchSpec == InitSearch /\ [][NextSearch]_vars

\* ------------------------------------------------------------- properties
\* the current run has passed the search step / the paginator
PastSearch == pc \in { "page", "download", "render" } \/ (pc = "idle" /\ "page_input" \in ui)

PastPage == pc \in { "download", "render" } \/ (pc = "idle" /\ "page_input" \in ui)

PastFilter == pc = "search" \/ PastSearch

FormDone == Len(form.cand) = 9 /\ "submit" \in ui

\* the text of row i of the cleaned table in a column
Cell(i, col) == cache.rows[i].cells[col]

\* the frame holding, in table order, the rows whose position satisfies Keep
RowsWhere(Keep(_)) ==
  LET RECURSIVE Build(_)
      Build(i) == IF i > Len(cache.rows) THEN << >>
                  ELSE (IF Keep(i) THEN << cache.rows[i].ix >> ELSE << >>) \o Build(i + 1)
  IN  Build(1)

\* row i carries the chosen value of every cascading dropdown before the k-th
MatchesBefore(sel, i, k) ==
  \A j \in 1..(k - 1) : sel[j] = ALL \/ Cell(i, CascadeCols[j]) = sel[j]

\* a calendar date YYYY-MM-DD as the number YYYYMMDD
DateNum(d) ==
  NumVal(SubSeq(d, 1, 4)) * 10000 + NumVal(SubSeq(d, 6, 7)) * 100 + NumVal(SubSeq(d, 9, 10))

RowDateNum(i) == DateNum(SubSeq(Cell(i, "Date"), 1, 10))

\* C1: the candidate list of the k-th cascading dropdown is 'All' followed
\* by the distinct values of its column, in ascending order without
\* repeats, among the rows of the cleaned table that carry every chosen
\* value of the dropdowns before it; later dropdowns play no part
C1_CandidateLists ==
  \A k \in 1..8 :
    Len(form.cand) >= k =>
      LET lst  == form.cand[k]
          vals == { Cell(i, CascadeCols[k]) :
                      i \in { x \in 1..Len(cache.rows) : MatchesBefore(form.sel, x, k) } }
      IN  /\ lst[1] = ALL
          /\ { lst[i] : i \in 2..Len(lst) } = vals
          /\ \A i \in 2..(Len(lst) - 1) : StrLess(lst[i], lst[i + 1])

\* a run where an earlier choice removed a value from a later list
C1_Witness ==
  /\ FormDone
  /\ \E j \in 1..7 : form.sel[j] # ALL
  /\ \E k \in 2..8 : Len(form.cand[k]) < Len(AllCandidates(cache.rows)[k])

\* the Filtered Result of widget values wv over the cleaned table: the
\* cascading choices, Absent Reason, the date range (by default the first
\* and last date left by the cascade), then the search
FilteredResultOf(wv) ==
  LET InCascade(i) == MatchesBefore(wv.sel, i, 9)
      kept  == { i \in 1..Len(cache.rows) : InCascade(i) }
      lo    == IF wv.from_date # Null THEN DateNum(wv.from_date)
               ELSE CHOOSE d \in { RowDateNum(i) : i \in kept } :
                      \A i \in kept : d <= RowDateNum(i)
      hi    == IF wv.to_date # Null THEN DateNum(wv.to_date)
               ELSE CHOOSE d \in { RowDateNum(i) : i \in kept } :
                      \A i \in kept : d >= RowDateNum(i)
      Keep(i) ==
        /\ InCascade(i)
        /\ wv.absent = ALL \/ Cell(i, "Absent Reason") = wv.absent
        /\ lo <= RowDateNum(i) /\ RowDateNum(i) <= hi
        /\ IsBlank(wv.search) \/ RowMatches(cache.rows[i].cells, Lower(wv.search))
  IN  IF kept = {} THEN << >> ELSE RowsWhere(Keep)

\* C2: every run started by Apply, a page-number change or the download
\* button of a complete worksheet paginates and exports the Filtered Result
\* of the session's widget values
C2_RunsPageFilteredResult ==
  (pc = "idle" /\ sheet.ok /\ sheet.cols = SheetCols
     /\ ev \in { "apply", "page", "download" }) =>
    /\ status = "ok"
    /\ "download" \in ui
    /\ filtered = FilteredResultOf(w)
    /\ paginated = PageSlice(filtered, page)
    /\ exported = [k \in 1..Len(filtered) |-> CellsOf(cache.rows, filtered[k])]

\* the least c with c * 10 >= n
CeilTenth(n) == CHOOSE c \in 0..n : c * 10 >= n /\ (c = 0 \/ (c - 1) * 10 < n)

RECURSIVE ConcatPages(_, _, _)
ConcatPages(f, p, last) ==
  IF p > last THEN << >> ELSE PageSlice(f, p) \o ConcatPages(f, p + 1, last)

\* C3: the page count is max(1, ceil(N / 10)); the pages 1..count taken in
\* order give back the Filtered Result, every page but the last has 10
\* rows, and the page shown is the slice of the page number in 1..count
C3_PagesCover ==
  PastPage =>
    LET n == Len(filtered)
    IN  /\ total_pages = (IF CeilTenth(n) < 1 THEN 1 ELSE CeilTenth(n))
        /\ ConcatPages(filtered, 1, total_pages) = filtered
        /\ \A p \in 1..(total_pages - 1) : Len(PageSlice(filtered, p)) = 10
        /\ Len(PageSlice(filtered, total_pages)) = n - 10 * (total_pages - 1)
        /\ page \in 1..total_pages
        /\ paginated = SubSeq(filtered, (page - 1) * 10 + 1,
                              IF page * 10 < n THEN page * 10 ELSE n)

\* 23 rows: three pages, the third of 3 rows
C3_Witness ==
  PastPage /\ Len(filtered) = 23 /\ total_pages = 3 /\ page = 3 /\ Len(paginated) = 3

\* C4: the cached table stays what the Data Source Adapter returned
C4_CacheUnchanged ==
  cache.valid => (cache.cols = sheet.cols /\ cache.rows = sheet.rows)

\* the parts of the page below the title that are not an error report
PanelElements ==
  { "subheader", "Absent Reason", "search", "from_date", "to_date", "submit",
    "reset", "page_input", "total_pages", "download", "records" }
    \cup { CascadeCols[k] : k \in 1..8 }

\* C5: a run on a fetched worksheet that lacks a required column ends in
\* SchemaError with nothing of the panel, pagination, download or records
\* on the page
C5_MissingColumnIsSchemaError ==
  (pc = "idle" /\ sheet.ok /\ sheet.cols # SheetCols) =>
    (status = "SchemaError" /\ ui \cap PanelElements = {})

\* C6: after Apply the date range keeps, in order, exactly the rows of df8
\* (narrowed by Absent Reason) dated from <= d <= to, bounds included;
\* from > to gives no rows and no error
C6_DateRangeInclusive ==
  (PastFilter /\ form.submit) =>
    LET InBase(i) ==
          /\ cache.rows[i].ix \in Elems(form.df[8])
          /\ form.absent = ALL \/ Cell(i, "Absent Reason") = form.absent
        Keep(i) ==
          /\ InBase(i)
          /\ form.from_date # Null /\ form.to_date # Null
          /\ DateNum(form.from_date) <= RowDateNum(i)
          /\ RowDateNum(i) <= DateNum(form.to_date)
    IN  /\ presearch = RowsWhere(Keep)
        /\ (form.from_date # Null /\ form.to_date # Null
              /\ DateNum(form.from_date) > DateNum(form.to_date))
             => (presearch = << >> /\ status \in { "running", "ok" })

\* from = to, and a row dated exactly that day is kept while another is not
C6_Witness ==
  /\ PastFilter /\ form.submit
  /\ form.from_date # Null /\ form.from_date = form.to_date
  /\ presearch # << >>
  /\ Len(presearch) < Len(form.df[8])

\* C7: with nine dropdowns on 'All', no date picked and an empty search the
\* Filtered Result is the cleaned table, row for row, with or without Apply
C7_AllIsIdentity ==
  (PastSearch /\ (\A k \in 1..8 : form.sel[k] = ALL) /\ form.absent = ALL
     /\ w.from_date = Null /\ w.to_date = Null /\ form.search = << >>) =>
    filtered = Labels(cache.rows)

\* such a run started by Apply over rows of several dates
C7_Witness ==
  /\ PastSearch /\ form.submit
  /\ (\A k \in 1..8 : form.sel[k] = ALL) /\ form.absent = ALL
  /\ w.from_date = Null /\ w.to_date = Null /\ form.search = << >>
  /\ form.from_date # form.to_date
  /\ Len(filtered) >= 3

\* the best score over the cells of row i against the lower-cased query is
\* above / exactly 70
BestAbove70(i, q) ==
  \E c \in DOMAIN cache.rows[i].cells :
    LET sc == PartialRatio(Lower(AsStr(Cell(i, c), c)), Lower(q))
    IN  100 * sc[1] > 70 * sc[2]

BestExactly70(i, q) ==
  /\ ~BestAbove70(i, q)
  /\ \E c \in DOMAIN cache.rows[i].cells :
       LET sc == PartialRatio(Lower(AsStr(Cell(i, c), c)), Lower(q))
       IN  100 * sc[1] = 70 * sc[2]

\* C8: the search step gives back its input for a blank query, and
\* otherwise keeps, in order, exactly the rows with a cell scoring above 70
C8_SearchStep ==
  (PastSearch /\ form.submit /\ form.search # << >>) =>
    LET Keep(i) ==
          /\ cache.rows[i].ix \in Elems(presearch)
          /\ IsBlank(form.search) \/ BestAbove70(i, form.search)
    IN  /\ filtered = RowsWhere(Keep)
        /\ IsBlank(form.search) => filtered = presearch
        /\ Elems(filtered) \subseteq Elems(presearch)

\* a row whose best score is exactly 70 went in and did not come out
C8_Witness ==
  /\ PastSearch /\ form.submit /\ ~IsBlank(form.search)
  /\ \E i \in 1..Len(cache.rows) :
       /\ cache.rows[i].ix \in Elems(presearch)
       /\ cache.rows[i].ix \notin Elems(filtered)
       /\ BestExactly70(i, form.search)

\* C9: the run that follows Reset has every dropdown on 'All', no search
\* text and no date picked, and its Filtered Result is the cleaned table
C9_ResetClears ==
  (pc = "idle" /\ sheet.ok /\ sheet.cols = SheetCols /\ ev \in { "reset", "rerun" }) =>
    /\ status = "ok"
    /\ w = [DefaultWidgets EXCEPT !.page = w.page]
    /\ filtered = Labels(cache.rows)

\* C10: over a cleaned table with rows, choices taken from the lists of the
\* same run leave every running table df1..df8 with rows, Absent Reason has
\* a value to offer and both default dates exist
C10_RunningTablesNonEmpty ==
  (cache.rows # << >>
     /\ \A k \in 1..Len(form.sel) : form.sel[k] \in Elems(form.cand[k])) =>
    /\ \A k \in 1..Len(form.df) : form.df[k] # << >>
    /\ Len(form.cand) = 9 =>
         /\ Len(form.cand[9]) >= 2
         /\ status # "ValueError"
         /\ pc # "form" => (form.from_date # Null /\ form.to_date # Null)

\* a run whose choices narrowed the table
C10_Witness ==
  /\ FormDone
  /\ cache.rows # << >>
  /\ \E k \in 1..8 : form.sel[k] # ALL
  /\ Len(form.df[8]) < Len(cache.rows)

====
